---- MODULE Spec2Model ----
(***************************************************************************)
(* clapper: a declarative command tree (JSON) is rebuilt as a clap         *)
(* Command, clap_complete is run once per shell, and the five scripts are  *)
(* written as a C++ byte table (src/src/main.rs).                          *)
(*                                                                         *)
(* Text is modelled as a sequence of chunks: one chunk per fixed piece of  *)
(* a format string and one chunk per formatted character, so that the hex  *)
(* literals can be read back digit by digit.  Option<T> is a sequence of   *)
(* length 0 (None) or 1 (Some).                                            *)
(***************************************************************************)
EXTENDS Integers, Sequences, FiniteSets, TLC

\* ------------------------------------------------------------------ bounds
\* Largest declared tree: commands + options + arguments, root included.
MaxSize == 3
\* The completion engine's answers are drawn from MaxEngine + 1 oracles.
MaxEngine == 5

\* ------------------------------------------------------------- small helpers
None == <<>>
Some(x) == <<x>>

Range(s) == {s[k] : k \in 1..Len(s)}

RECURSIVE SeqsOfLen(_, _)
SeqsOfLen(S, n) ==
    IF n = 0 THEN {<<>>}
    ELSE {<<x>> \o t : x \in S, t \in SeqsOfLen(S, n - 1)}

\* --------------------------------------------------------- declarative model
\* struct ArgumentDef
ArgumentDef(n, vt, pv, req) ==
    [name |-> n, description |-> n, value_type |-> vt,
     possible_values |-> pv, required |-> req, global |-> FALSE]

\* struct OptionDef
OptionDef(n, sh, lg, vt, pv, gl) ==
    [name |-> n, short_names |-> sh, long_names |-> lg, description |-> n,
     value_type |-> vt, possible_values |-> pv, required |-> FALSE,
     global |-> gl]

\* struct CommandDef
CommandDef(n, os, as, ss) ==
    [name |-> n, description |-> n, options |-> os, arguments |-> as,
     subcommands |-> ss]

\* The declared options the inputs are built from: every combination of a
\* non-empty possible_values with an absent, a recognised and an unrecognised
\* value_type, and options without possible_values.
OptionDefs ==
    { OptionDef("verbose", <<"v">>, <<>>, None, <<>>, TRUE),
      OptionDef("format", <<>>, <<"fmt">>, None, <<"json", "text">>, FALSE),
      OptionDef("level", <<"l">>, <<>>, Some("integer"), <<"low", "high">>, FALSE),
      OptionDef("mode", <<>>, <<>>, Some("unknown-widget"), <<"fast">>, FALSE),
      OptionDef("count", <<"c">>, <<>>, Some("integer"), <<>>, FALSE) }

\* The declared positional arguments the inputs are built from: one per
\* value_type string the resolver distinguishes, and an unrecognised one.
ArgumentDefs ==
    { ArgumentDef("file", Some("path"), <<>>, TRUE),
      ArgumentDef("src", Some("file"), <<>>, FALSE),
      ArgumentDef("dest", Some("dir"), <<>>, FALSE),
      ArgumentDef("force", Some("boolean"), <<>>, FALSE),
      ArgumentDef("ratio", Some("float"), <<>>, FALSE),
      ArgumentDef("widget", Some("unknown-widget"), <<>>, FALSE) }

RootNames == {"tool"}
SubcommandNames == {"list", "run"}

\* All command trees of exactly n declared elements (the command itself, its
\* options, its arguments and everything below its subcommands).
RECURSIVE CommandDefsOfSize(_, _), ForestsOfSize(_)
CommandDefsOfSize(n, names) ==
    UNION { UNION { { CommandDef(nm, os, as, ss) :
                        nm \in names,
                        os \in SeqsOfLen(OptionDefs, i),
                        as \in SeqsOfLen(ArgumentDefs, j),
                        ss \in ForestsOfSize(n - 1 - i - j) } :
                    j \in 0..(n - 1 - i) } :
            i \in 0..(n - 1) }

ForestsOfSize(m) ==
    IF m = 0 THEN {<<>>}
    ELSE UNION { { <<t>> \o f : t \in CommandDefsOfSize(s, SubcommandNames),
                                f \in ForestsOfSize(m - s) } :
                 s \in 1..m }

InputDefs == UNION { CommandDefsOfSize(n, RootNames) : n \in 1..MaxSize }

\* ------------------------------------------------------- Value-Type Resolver
PossibleValuesParser(vals) == [kind |-> "PossibleValues", values |-> vals]
TypedParser(k) == [kind |-> k, values |-> <<>>]

\* fn leak_string: an owned copy with the same content.
leak_string(s) == s

RECURSIVE MapLeak(_)
MapLeak(ss) ==
    IF ss = <<>> THEN <<>> ELSE <<leak_string(Head(ss))>> \o MapLeak(Tail(ss))

\* Mutant: "dir" is missing from the first arm of the match.
TypeDispatch_NoDir(value_type) ==
    IF value_type = None THEN TypedParser("NonEmptyString")
    ELSE LET t == value_type[1] IN
         IF t \in {"file", "path"} THEN TypedParser("PathBuf")
         ELSE IF t = "boolean" THEN TypedParser("bool")
         ELSE IF t = "integer" THEN TypedParser("i64")
         ELSE IF t = "float" THEN TypedParser("f64")
         ELSE TypedParser("NonEmptyString")

\* The match on value_type.as_deref().
TypeDispatch(value_type) ==
    IF value_type = None THEN TypedParser("NonEmptyString")
    ELSE LET t == value_type[1] IN
         IF t \in {"file", "dir", "path"} THEN TypedParser("PathBuf")
         ELSE IF t = "boolean" THEN TypedParser("bool")
         ELSE IF t = "integer" THEN TypedParser("i64")
         ELSE IF t = "float" THEN TypedParser("f64")
         ELSE TypedParser("NonEmptyString")

\* Mutant: the declared type decides first, the literals only without one.
make_value_parser_TypeFirst(possible_values, value_type) ==
    IF value_type # None THEN TypeDispatch(value_type)
    ELSE IF possible_values # <<>>
    THEN PossibleValuesParser(MapLeak(possible_values))
    ELSE TypeDispatch(value_type)

\* fn make_value_parser
make_value_parser(possible_values, value_type) ==
    IF possible_values # <<>>
    THEN PossibleValuesParser(MapLeak(possible_values))
    ELSE TypeDispatch(value_type)


\* --------------------------------------------------------- clap's Command/Arg
\* Mutant: an option without value_type and possible_values is made a flag.
OptionArg_FlagWhenUntyped(option) ==
    [id |-> leak_string(option.name),
     long |-> Some(leak_string(option.name)),
     short_aliases |-> option.short_names,
     aliases |-> MapLeak(option.long_names),
     required |-> option.required,
     global |-> option.global,
     value_parser |-> make_value_parser(option.possible_values, option.value_type),
     help |-> leak_string(option.description),
     action |-> IF option.value_type = None /\ option.possible_values = <<>>
                THEN Some("SetTrue") ELSE None]

\* clap::Arg::new(id) followed by the builder calls of lines 94-103.  The
\* builder never calls .action() or .num_args(): the action stays unset.
OptionArg(option) ==
    [id |-> leak_string(option.name),
     long |-> Some(leak_string(option.name)),
     short_aliases |-> option.short_names,
     aliases |-> MapLeak(option.long_names),
     required |-> option.required,
     global |-> option.global,
     value_parser |-> make_value_parser(option.possible_values, option.value_type),
     help |-> leak_string(option.description),
     action |-> None]

\* clap::Arg::new(id) followed by the builder calls of lines 110-113: no
\* long or short name, hence a positional argument.
PositionalArg(arg) ==
    [id |-> leak_string(arg.name),
     long |-> None,
     short_aliases |-> <<>>,
     aliases |-> <<>>,
     required |-> arg.required,
     global |-> arg.global,
     value_parser |-> make_value_parser(arg.possible_values, arg.value_type),
     help |-> leak_string(arg.description),
     action |-> None]

\* Command::new(name).about(..).disable_help_flag(true)...
CommandNew(def) ==
    [name |-> leak_string(def.name),
     about |-> leak_string(def.description),
     disable_help_flag |-> TRUE,
     disable_version_flag |-> TRUE,
     disable_help_subcommand |-> TRUE,
     args |-> <<>>,
     subcommands |-> <<>>,
     bin_name |-> None,
     built |-> FALSE]

\* Mutant: the argument is put in front of the list.
CommandArg_Prepend(cmd, a) == [cmd EXCEPT !.args = <<a>> \o @]

\* cmd = cmd.arg(a): clap pushes the argument at the end of the command's
\* argument list, whatever its id.
CommandArg(cmd, a) == [cmd EXCEPT !.args = Append(@, a)]

\* cmd = cmd.subcommand(sub): pushed at the end of the subcommand list.
CommandSubcommand(cmd, sub) == [cmd EXCEPT !.subcommands = Append(@, sub)]

\* for option in &def.options { cmd = cmd.arg(..) }
RECURSIVE AddOptions(_, _)
AddOptions(cmd, options) ==
    IF options = <<>> THEN cmd
    ELSE AddOptions(CommandArg(cmd, OptionArg(Head(options))), Tail(options))

\* for arg in &def.arguments { cmd = cmd.arg(..) }
RECURSIVE AddArguments(_, _)
AddArguments(cmd, arguments) ==
    IF arguments = <<>> THEN cmd
    ELSE AddArguments(CommandArg(cmd, PositionalArg(Head(arguments))),
                      Tail(arguments))

\* fn make_command, with its loop over the subcommands.
RECURSIVE make_command(_), AddSubcommands(_, _)
AddSubcommands(cmd, subcommands) ==
    IF subcommands = <<>> THEN cmd
    ELSE AddSubcommands(CommandSubcommand(cmd, make_command(Head(subcommands))),
                        Tail(subcommands))

make_command(def) ==
    AddSubcommands(
        AddArguments(AddOptions(CommandNew(def), def.options), def.arguments),
        def.subcommands)

\* An argument whose action was never set gets clap's default action, Set
\* (Append for an unbounded positional): it consumes a value.  Only SetTrue,
\* SetFalse and Count make a flag that takes none.
EffectiveAction(a) == IF a.action = None THEN "Set" ELSE a.action[1]
TakesValue(a) == EffectiveAction(a) \in {"Set", "Append"}

\* ------------------------------------------------------------ the shell set
\* Mutant: Fish is listed before Zsh.
shells_Reordered == <<"bash", "fish", "zsh", "powershell", "elvish">>

\* let shells = [Shell::Bash, Shell::Zsh, Shell::Fish, Shell::PowerShell,
\* Shell::Elvish], by Shell's Display names.
shells == <<"bash", "zsh", "fish", "powershell", "elvish">>

\* -------------------------------------------------------- completion engine
\* What clap_complete::generate does to the command it is handed: it sets the
\* binary name and builds the command in place.
EngineBuild(cmd, name) == [cmd EXCEPT !.bin_name = Some(name), !.built = TRUE]

\* The script of the k-th shell (k from 0) under oracle e: the engine is
\* external, so its bytes are an arbitrary but fixed answer.  Oracle 0 answers
\* with 0, 6, 12, 18 and 24 bytes, oracle 1 with 1, 7, 13, 19 and 25, ...
EngineBytes(e, k) ==
    [j \in 1..(e + 6 * k) |-> (101 * e + 53 * k + 37 * j) % 256]

\* Mutant: the engine is handed `&mut command` itself, without the clone.
Generate_InPlace(cmd, name, e, k) ==
    [command |-> EngineBuild(cmd, name),
     binary_name |-> name,
     received |-> [shell |-> shells[k + 1], cmd |-> cmd, bin_name |-> name,
                   returned |-> EngineBytes(e, k)],
     buf |-> EngineBytes(e, k)]

\* clap_complete::generate(shell, &mut command.clone(), binary_name.clone(),
\* &mut buf): the engine works on a copy, so the caller's command and name
\* are what they were.
Generate(cmd, name, e, k) ==
    [command |-> cmd,
     binary_name |-> name,
     received |-> [shell |-> shells[k + 1], cmd |-> cmd, bin_name |-> name,
                   returned |-> EngineBytes(e, k)],
     buf |-> EngineBytes(e, k)]


\* ---------------------------------------------------------------- serializer
NL == "\n"

HexDigits ==
    <<"0", "1", "2", "3", "4", "5", "6", "7",
      "8", "9", "A", "B", "C", "D", "E", "F">>

\* {:X}: the digits of n in base 16, most significant first, upper case.
RECURSIVE UpperHex(_)
UpperHex(n) ==
    IF n < 16 THEN <<HexDigits[n + 1]>>
    ELSE UpperHex(n \div 16) \o <<HexDigits[(n % 16) + 1]>>

\* Mutant: {:X} instead of {:02X}, no padding.
ZeroPad_None(digits, width) == digits

\* {:02..}: zero-padded on the left to a minimum width.
RECURSIVE ZeroPad(_, _)
ZeroPad(digits, width) ==
    IF Len(digits) >= width THEN digits ELSE ZeroPad(<<"0">> \o digits, width)

\* write!(cpp_source, "0x{:02X}, ", byte)
ByteLiteral(byte) == <<"0x">> \o ZeroPad(UpperHex(byte), 2) \o <<", ">>

\* buf.len() - 1 on usize: underflows exactly when the minuend is smaller.
UsizeSubOverflows(a, b) == a < b

\* The iterations that evaluate `i == buf.len() - 1`: those of the loop over
\* buf where `i % 12 == 11` is false (|| short-circuits).
LastIndexUses(buf) == {i \in 0..(Len(buf) - 1) : i % 12 # 11}

SerializeUnderflows(buf) ==
    LastIndexUses(buf) # {} /\ UsizeSubOverflows(Len(buf), 1)

\* Mutant: the line is ended only after a twelfth literal, never after the
\* last byte.
RECURSIVE SerializeFrom_NoTrailing(_, _)
SerializeFrom_NoTrailing(buf, i) ==
    IF i >= Len(buf) THEN <<>>
    ELSE (IF i % 12 = 0 THEN <<"    ">> ELSE <<>>)
         \o ByteLiteral(buf[i + 1])
         \o (IF i % 12 = 11 THEN <<NL>> ELSE <<>>)
         \o SerializeFrom_NoTrailing(buf, i + 1)

\* for (i, byte) in buf.iter().enumerate() { .. }, from iteration i on.
RECURSIVE SerializeFrom(_, _)
SerializeFrom(buf, i) ==
    IF i >= Len(buf) THEN <<>>
    ELSE (IF i % 12 = 0 THEN <<"    ">> ELSE <<>>)
         \o ByteLiteral(buf[i + 1])
         \o (IF i % 12 = 11 \/ i = Len(buf) - 1 THEN <<NL>> ELSE <<>>)
         \o SerializeFrom(buf, i + 1)

\* writeln!(cpp_source, "{{ \"{}\", {{", shell.to_string())
EntryOpen(shell) == <<"{ \"", shell, "\", {", NL>>

\* writeln!(cpp_source, "}}}},")
EntryClose == <<"}},", NL>>

\* shells.iter().map(|s| format!("\"{}\"", s)).collect().join(",")
RECURSIVE JoinQuoted(_)
JoinQuoted(names) ==
    IF names = <<>> THEN <<>>
    ELSE <<"\"", Head(names), "\"">>
         \o (IF Len(names) > 1 THEN <<",">> ELSE <<>>)
         \o JoinQuoted(Tail(names))

\* Lines 162-191: the includes, the SHELLS macro and the map's opening line.
Header ==
    <<"#include <string>", NL, "#include <vector>", NL,
      "#include <cstdint>", NL, "#include <map>", NL, NL>>
    \o <<"#define SHELLS ">> \o JoinQuoted(shells) \o <<NL>>
    \o <<"const std::map<std::string, std::vector<std::uint8_t>> shell_complete = {", NL>>

\* writeln!(cpp_source, "}};")
Footer == <<"};", NL>>

\* ------------------------------------------------------------------- state
VARIABLES
    input_file,   \* the file at --input: readable?, valid JSON?, its content
    engine,       \* which answers the completion engine gives in this run
    pc,           \* position in main
    panic,        \* the panic message, once main has panicked
    command_def,  \* Option: the parsed CliDef's command
    command,      \* Option: the built clap Command
    binary_name,  \* Option: command.get_name()
    cpp_source,   \* the in-memory buffer of the generated source text
    shell_ix,     \* how many shells the loop has completed
    calls,        \* what each invocation of the completion engine received
    output,       \* Option: the content of the file at --output
    writes        \* how many times the file at --output has been written

vars == <<input_file, engine, pc, panic, command_def, command, binary_name,
          cpp_source, shell_ix, calls, output, writes>>

EmptyDef == CommandDef("tool", <<>>, <<>>, <<>>)

InputFiles ==
    { [readable |-> FALSE, valid |-> FALSE, def |-> EmptyDef],
      [readable |-> TRUE, valid |-> FALSE, def |-> EmptyDef] }
    \cup { [readable |-> TRUE, valid |-> TRUE, def |-> d] : d \in InputDefs }

Init ==
    /\ input_file \in InputFiles
    /\ engine \in 0..MaxEngine
    /\ pc = "read"
    /\ panic = None
    /\ command_def = None
    /\ command = None
    /\ binary_name = None
    /\ cpp_source = <<>>
    /\ shell_ix = 0
    /\ calls = <<>>
    /\ output = None
    /\ writes = 0

Panic(msg) ==
    /\ pc' = "panicked"
    /\ panic' = Some(msg)

\* fs::read_to_string(..).expect("Unable to read input file")
ReadInput ==
    /\ pc = "read"
    /\ \/ /\ input_file.readable
          /\ pc' = "parse"
          /\ UNCHANGED panic
       \/ /\ ~input_file.readable
          /\ Panic("Unable to read input file")
    /\ UNCHANGED <<input_file, engine, command_def, command, binary_name,
                   cpp_source, shell_ix, calls, output, writes>>

\* serde_json::from_str(&input).expect("Unable to parse input JSON")
ParseInput ==
    /\ pc = "parse"
    /\ \/ /\ input_file.valid
          /\ command_def' = Some(input_file.def)
          /\ pc' = "build"
          /\ UNCHANGED panic
       \/ /\ ~input_file.valid
          /\ Panic("Unable to parse input JSON")
          /\ UNCHANGED command_def
    /\ UNCHANGED <<input_file, engine, command, binary_name, cpp_source,
                   shell_ix, calls, output, writes>>

\* let command = make_command(&command_def.command);
\* let binary_name = command.get_name().to_string();
BuildCommand ==
    /\ pc = "build"
    /\ command' = Some(make_command(command_def[1]))
    /\ binary_name' = Some(make_command(command_def[1]).name)
    /\ pc' = "header"
    /\ UNCHANGED <<input_file, engine, panic, command_def, cpp_source,
                   shell_ix, calls, output, writes>>

\* Lines 161-191, all into the in-memory buffer.
WriteHeader ==
    /\ pc = "header"
    /\ cpp_source' = cpp_source \o Header
    /\ pc' = "generate"
    /\ UNCHANGED <<input_file, engine, panic, command_def, command,
                   binary_name, shell_ix, calls, output, writes>>

\* Mutant: every iteration also writes what it has so far to the output file.
GenerateShell_Incremental ==
    /\ pc = "generate"
    /\ shell_ix < Len(shells)
    /\ LET g == Generate(command[1], binary_name[1], engine, shell_ix) IN
       /\ command' = Some(g.command)
       /\ binary_name' = Some(g.binary_name)
       /\ calls' = Append(calls, g.received)
       /\ cpp_source' = cpp_source \o EntryOpen(shells[shell_ix + 1])
                           \o SerializeFrom(g.buf, 0) \o EntryClose
       /\ output' = Some(cpp_source')
       /\ writes' = writes + 1
       /\ shell_ix' = shell_ix + 1
       /\ pc' = IF shell_ix + 1 = Len(shells) THEN "footer" ELSE "generate"
    /\ UNCHANGED <<input_file, engine, panic, command_def>>

\* One iteration of `for shell in shells`: generate, then serialize the
\* entry into the in-memory buffer.  The engine may panic instead of
\* returning; a usize underflow panics as well.
GenerateShell ==
    /\ pc = "generate"
    /\ shell_ix < Len(shells)
    /\ LET g == Generate(command[1], binary_name[1], engine, shell_ix) IN
       \/ /\ ~SerializeUnderflows(g.buf)
          /\ command' = Some(g.command)
          /\ binary_name' = Some(g.binary_name)
          /\ calls' = Append(calls, g.received)
          /\ cpp_source' = cpp_source \o EntryOpen(shells[shell_ix + 1])
                              \o SerializeFrom(g.buf, 0) \o EntryClose
          /\ shell_ix' = shell_ix + 1
          /\ pc' = IF shell_ix + 1 = Len(shells) THEN "footer" ELSE "generate"
          /\ UNCHANGED panic
       \/ /\ Panic(IF SerializeUnderflows(g.buf)
                   THEN "attempt to subtract with overflow"
                   ELSE "completion engine failed")
          /\ UNCHANGED <<command, binary_name, calls, cpp_source, shell_ix>>
    /\ UNCHANGED <<input_file, engine, command_def, output, writes>>

\* writeln!(cpp_source, "}};"), flush, into_inner.
WriteFooter ==
    /\ pc = "footer"
    /\ cpp_source' = cpp_source \o Footer
    /\ pc' = "write"
    /\ UNCHANGED <<input_file, engine, panic, command_def, command,
                   binary_name, shell_ix, calls, output, writes>>

\* std::fs::write(output, cpp_source).unwrap(): the whole buffer in one call,
\* or a panic when the destination cannot be opened for writing.  (A device
\* failing in the middle of the write is not modelled.)
WriteOutput ==
    /\ pc = "write"
    /\ \/ /\ output' = Some(cpp_source)
          /\ writes' = writes + 1
          /\ pc' = "done"
          /\ UNCHANGED panic
       \/ /\ Panic("output not writable")
          /\ UNCHANGED <<output, writes>>
    /\ UNCHANGED <<input_file, engine, command_def, command, binary_name,
                   cpp_source, shell_ix, calls>>

Next ==
    \/ ReadInput
    \/ ParseInput
    \/ BuildCommand
    \/ WriteHeader
    \/ GenerateShell
    \/ WriteFooter
    \/ WriteOutput

Spec == Init /\ [][Next]_vars


\* ------------------------------------------------- reading the output back
\* The five shells, in the order the table must list them.
FixedShellOrder == <<"bash", "zsh", "fish", "powershell", "elvish">>

IsPrefix(s, t) == Len(s) <= Len(t) /\ s = SubSeq(t, 1, Len(s))

\* The positions of chunk tok in text, ascending.
Positions(text, tok) ==
    LET S == {p \in 1..Len(text) : text[p] = tok}
    IN  [k \in 1..Cardinality(S) |->
            CHOOSE p \in S : Cardinality({q \in S : q < p}) = k - 1]

EntryPositions(text) == Positions(text, "{ \"")

\* The quoted keys of the table's entries, in the order of the text.
EntryNames(text) ==
    LET ps == EntryPositions(text) IN [k \in 1..Len(ps) |-> text[ps[k] + 1]]

ClosePositions(text) == Positions(text, "}},")

\* The k-th entry is well formed, given the positions ps of the opening and
\* closes of the closing chunks: its opening line `{ "<shell>", {`, then a
\* body, then the closing line `}},`.
WellFormedAt(text, ps, closes, k) ==
    /\ k <= Len(ps)
    /\ k <= Len(closes)
    /\ ps[k] + 3 <= Len(text)
    /\ text[ps[k] + 2] = "\", {"
    /\ text[ps[k] + 3] = NL
    /\ closes[k] > ps[k] + 3
    /\ k < Len(ps) => closes[k] < ps[k + 1]
    /\ closes[k] + 1 <= Len(text)
    /\ text[closes[k] + 1] = NL

\* The chunks between the k-th entry's opening line and its closing line.
BodyAt(text, ps, closes, k) == SubSeq(text, ps[k] + 4, closes[k] - 1)

\* The lines of a body: the runs of chunks that a newline closes.
LinesOf(body) ==
    LET nls == Positions(body, NL)
    IN  [l \in 1..Len(nls) |->
            SubSeq(body, (IF l = 1 THEN 0 ELSE nls[l - 1]) + 1, nls[l] - 1)]

\* What follows the last newline of a body: empty when every line is closed.
Unterminated(body) ==
    LET nls == Positions(body, NL)
    IN  SubSeq(body, (IF nls = <<>> THEN 0 ELSE nls[Len(nls)]) + 1, Len(body))

IsLiteralMarker(ch) == ch = "0x"
IsVisible(ch) == ch \notin {"    ", NL}

\* How many hex literals a run of chunks holds.
LiteralCount(chunks) == Len(SelectSeq(chunks, IsLiteralMarker))

IsUpperHex(ch) == \E v \in 1..16 : HexDigits[v] = ch
HexValue(ch) == (CHOOSE v \in 1..16 : HexDigits[v] = ch) - 1

\* A body holds nothing but indentation, newlines and literals of the form
\* `0x`, two upper-case hex digits, `, `.
OnlyLiterals(body) ==
    LET vis == SelectSeq(body, IsVisible)
    IN  /\ Len(vis) % 4 = 0
        /\ \A m \in 1..(Len(vis) \div 4) :
              /\ vis[4 * m - 3] = "0x"
              /\ IsUpperHex(vis[4 * m - 2])
              /\ IsUpperHex(vis[4 * m - 1])
              /\ vis[4 * m] = ", "

\* The bytes the literals of such a body denote, in order.
DecodeBody(body) ==
    LET vis == SelectSeq(body, IsVisible)
    IN  [m \in 1..(Len(vis) \div 4) |->
            16 * HexValue(vis[4 * m - 2]) + HexValue(vis[4 * m - 1])]

\* ------------------------------------------- declared and built, side by side
\* The pairs <<declared option, built Arg>> of a command and all below it,
\* matched by position.
RECURSIVE OptionPairs(_, _)
OptionPairs(def, cmd) ==
    { <<def.options[i], cmd.args[i]>> :
        i \in {x \in 1..Len(def.options) : x <= Len(cmd.args)} }
    \cup UNION { OptionPairs(def.subcommands[s], cmd.subcommands[s]) :
                 s \in {x \in 1..Len(def.subcommands) : x <= Len(cmd.subcommands)} }

\* The pairs <<declared argument, built Arg>>, matched by position.
RECURSIVE ArgumentPairs(_, _)
ArgumentPairs(def, cmd) ==
    { <<def.arguments[j], cmd.args[Len(def.options) + j]>> :
        j \in {x \in 1..Len(def.arguments) : Len(def.options) + x <= Len(cmd.args)} }
    \cup UNION { ArgumentPairs(def.subcommands[s], cmd.subcommands[s]) :
                 s \in {x \in 1..Len(def.subcommands) : x <= Len(cmd.subcommands)} }

ValuePairs(def, cmd) == OptionPairs(def, cmd) \cup ArgumentPairs(def, cmd)

Built == command # None


\* ------------------------------------------------------------------ claims

\* C1: the entries written so far are always a prefix of Bash, Zsh, Fish,
\* PowerShell, Elvish, one per completed loop iteration; once the loop is over,
\* and in the output file of a completed run, they are exactly that list.
C1_ShellTableComplete ==
    /\ IsPrefix(EntryNames(cpp_source), FixedShellOrder)
    /\ Len(EntryNames(cpp_source)) = shell_ix
    /\ pc \in {"footer", "write", "done"} => EntryNames(cpp_source) = FixedShellOrder
    /\ output # None => EntryNames(output[1]) = FixedShellOrder

\* A completed run on a root command without options, arguments, subcommands.
C1_Witness ==
    /\ pc = "done"
    /\ output # None
    /\ command_def = Some(EmptyDef)
    /\ Len(EntryNames(output[1])) = 5

\* The entries of a text read back as bytes are what the engine returned.
RoundTrips(text) ==
    LET ps == EntryPositions(text)
        closes == ClosePositions(text)
    IN  \A k \in 1..Len(calls) :
            /\ WellFormedAt(text, ps, closes, k)
            /\ text[ps[k] + 1] = calls[k].shell
            /\ OnlyLiterals(BodyAt(text, ps, closes, k))
            /\ DecodeBody(BodyAt(text, ps, closes, k)) = calls[k].returned

\* C2: for every shell generated so far, the entry holds only two-digit
\* upper-case hex literals, and reading them in order gives exactly the bytes
\* the engine returned for that shell: same length, same bytes, same order.
C2_HexRoundTrip ==
    /\ RoundTrips(cpp_source)
    /\ output # None => RoundTrips(output[1])

\* A written output with a script of more than one line that holds a byte
\* below 0x10 and a byte whose high digit is a letter.
C2_Witness ==
    /\ output # None
    /\ \E k \in 1..Len(calls) :
          /\ Len(calls[k].returned) > 12
          /\ \E j \in 1..Len(calls[k].returned) : calls[k].returned[j] < 16
          /\ \E j \in 1..Len(calls[k].returned) : calls[k].returned[j] >= 160

\* C3: every built option and argument whose declaration has a non-empty
\* possible_values carries the closed enumeration over exactly those literals,
\* whatever its value_type.
C3_EnumerationWins ==
    Built =>
        \A p \in ValuePairs(command_def[1], command[1]) :
            p[1].possible_values # <<>> =>
                /\ p[2].value_parser.kind = "PossibleValues"
                /\ p[2].value_parser.values = p[1].possible_values

\* A built tree with possible_values next to a recognised value_type and
\* next to an unrecognised one.
C3_Witness ==
    /\ Built
    /\ \E p \in ValuePairs(command_def[1], command[1]) :
          p[1].possible_values # <<>> /\ p[1].value_type = Some("integer")
    /\ \E p \in ValuePairs(command_def[1], command[1]) :
          p[1].possible_values # <<>> /\ p[1].value_type = Some("unknown-widget")

\* C4: building never fails, and every built option and argument declared
\* without possible_values carries the strategy of its value_type: the path
\* strategy for "file", "dir", "path", bool for "boolean", i64 for "integer",
\* f64 for "float", the non-empty string for anything else and for none.
C4_TypeDispatchTotal ==
    /\ (command_def # None /\ pc # "build") => Built
    /\ Built =>
        \A p \in ValuePairs(command_def[1], command[1]) :
            p[1].possible_values = <<>> =>
                /\ p[2].value_parser.values = <<>>
                /\ p[2].value_parser.kind =
                      IF p[1].value_type \in {Some("file"), Some("dir"), Some("path")}
                      THEN "PathBuf"
                      ELSE IF p[1].value_type = Some("boolean") THEN "bool"
                      ELSE IF p[1].value_type = Some("integer") THEN "i64"
                      ELSE IF p[1].value_type = Some("float") THEN "f64"
                      ELSE "NonEmptyString"

\* A built tree with an unrecognised value_type and a "dir" beside it.
C4_Witness ==
    /\ Built
    /\ pc = "header"
    /\ \E p \in ValuePairs(command_def[1], command[1]) :
          p[1].possible_values = <<>> /\ p[1].value_type = Some("unknown-widget")
    /\ \E p \in ValuePairs(command_def[1], command[1]) :
          p[1].possible_values = <<>> /\ p[1].value_type = Some("dir")

IsOptionArg(a) == a.long # None
IsPositionalArg(a) == a.long = None

\* The built command lists the declared options, arguments and subcommands,
\* each kind in declaration order, one built element per declared element.
RECURSIVE SameOrder(_, _)
SameOrder(def, cmd) ==
    LET opts == SelectSeq(cmd.args, IsOptionArg)
        poss == SelectSeq(cmd.args, IsPositionalArg)
    IN  /\ cmd.name = def.name
        /\ Len(opts) = Len(def.options)
        /\ \A i \in 1..Len(opts) :
              /\ opts[i].id = def.options[i].name
              /\ opts[i].long = Some(def.options[i].name)
              /\ opts[i].short_aliases = def.options[i].short_names
              /\ opts[i].aliases = def.options[i].long_names
        /\ Len(poss) = Len(def.arguments)
        /\ \A j \in 1..Len(poss) : poss[j].id = def.arguments[j].name
        /\ Len(cmd.subcommands) = Len(def.subcommands)
        /\ \A s \in 1..Len(cmd.subcommands) :
              SameOrder(def.subcommands[s], cmd.subcommands[s])

\* C5: the built tree has the shape of the declared tree and, at every node,
\* the options, the positional arguments and the subcommands in declaration
\* order, nothing dropped, added or reordered.
C5_OrderPreserved == Built => SameOrder(command_def[1], command[1])

\* A built root with two differently named options.
C5_Witness ==
    /\ Built
    /\ Len(command_def[1].options) = 2
    /\ command_def[1].options[1].name # command_def[1].options[2].name
    /\ Len(command[1].args) = 2

\* C6: the output file is written at most once; when it holds anything, the
\* run is done and it holds the whole buffer with all five entries and the
\* closing line; a run that panicked has written nothing.
C6_OutputAllOrNothing ==
    /\ writes <= 1
    /\ output = None <=> writes = 0
    /\ output # None =>
          /\ pc = "done"
          /\ shell_ix = 5
          /\ output[1] = cpp_source
          /\ EntryNames(output[1]) = FixedShellOrder
          /\ SubSeq(output[1], Len(output[1]) - 1, Len(output[1])) = Footer
    /\ pc = "panicked" => output = None

\* The engine fails after three shells have been serialized.
C6_Witness ==
    /\ pc = "panicked"
    /\ panic = Some("completion engine failed")
    /\ shell_ix = 3
    /\ output = None

\* Two options, or two arguments, of one command have the same name.
RECURSIVE HasDuplicateNames(_)
HasDuplicateNames(def) ==
    \/ \E i, j \in 1..Len(def.options) :
          i < j /\ def.options[i].name = def.options[j].name
    \/ \E i, j \in 1..Len(def.arguments) :
          i < j /\ def.arguments[i].name = def.arguments[j].name
    \/ \E s \in 1..Len(def.subcommands) : HasDuplicateNames(def.subcommands[s])

\* C7: a run whose input declares a duplicate name never completes and never
\* writes the output: it ends in a fatal error.
C7_DuplicateRejected ==
    (command_def # None /\ HasDuplicateNames(command_def[1])) =>
        /\ pc # "done"
        /\ output = None

\* The built options declared without value_type and without possible_values.
UntypedOptions ==
    { p \in OptionPairs(command_def[1], command[1]) :
        p[1].value_type = None /\ p[1].possible_values = <<>> }

\* C8 as stated: an option without value_type and possible_values is built
\* as a flag that takes no value.
C8_UntypedOptionIsFlag ==
    Built => \A p \in UntypedOptions : ~TakesValue(p[2])

\* C8 as amended: such an option is built with no action set, so it takes a
\* value, and its strategy is the non-empty free text.
C8_UntypedOptionTakesValue ==
    Built =>
        \A p \in UntypedOptions :
            /\ p[2].action = None
            /\ TakesValue(p[2])
            /\ p[2].value_parser = TypedParser("NonEmptyString")

\* The scenario's global option verbose, short name v, at the root.
C8_Witness ==
    /\ Built
    /\ \E p \in UntypedOptions :
          /\ p[1].name = "verbose"
          /\ p[1].short_names = <<"v">>
          /\ p[1].global
          /\ p[2] \in Range(command[1].args)

\* C9: an entry of n bytes has ceil(n / 12) byte lines, each ended by one
\* newline, 12 literals on every line but the last and the remaining
\* n - 12 * (ceil(n / 12) - 1) on the last; with n = 0 there is no byte line
\* between the opening and the closing line; n - 1 never underflows.
C9_LineWrapping ==
    /\ panic # Some("attempt to subtract with overflow")
    /\ LET ps == EntryPositions(cpp_source)
           closes == ClosePositions(cpp_source)
       IN  \A k \in 1..Len(calls) :
              /\ WellFormedAt(cpp_source, ps, closes, k)
              /\ LET n == Len(calls[k].returned)
                     count == (n + 11) \div 12
                     body == BodyAt(cpp_source, ps, closes, k)
                     lines == LinesOf(body)
                 IN  /\ Unterminated(body) = <<>>
                     /\ Len(lines) = count
                     /\ \A l \in 1..Len(lines) :
                           LiteralCount(lines[l]) =
                               IF l < count THEN 12 ELSE n - 12 * (count - 1)
                     /\ n = 0 => body = <<>>

\* One run with an empty script, a script of exactly 12 bytes and a longer
\* script with a shorter last line.
C9_Witness ==
    /\ pc = "done"
    /\ \E k \in 1..Len(calls) : Len(calls[k].returned) = 0
    /\ \E k \in 1..Len(calls) : Len(calls[k].returned) = 12
    /\ \E k \in 1..Len(calls) :
          Len(calls[k].returned) > 12 /\ Len(calls[k].returned) % 12 # 0

\* C10: the engine is invoked once per completed iteration, for the shells in
\* order; every invocation receives the root command's name and the tree as
\* built from the input, untouched by the earlier invocations; once the loop
\* is over there were exactly five invocations.
C10_EngineCallsIndependent ==
    /\ Len(calls) = shell_ix
    /\ pc \in {"footer", "write", "done"} => Len(calls) = 5
    /\ \A k \in 1..Len(calls) :
          /\ calls[k].shell = FixedShellOrder[k]
          /\ calls[k].bin_name = command_def[1].name
          /\ calls[k].cmd = calls[1].cmd
          /\ ~calls[k].cmd.built
          /\ calls[k].cmd.bin_name = None
          /\ SameOrder(command_def[1], calls[k].cmd)
          /\ command = Some(calls[k].cmd)
          /\ binary_name = Some(calls[k].bin_name)

\* Five invocations on a tree with a subcommand.
C10_Witness ==
    /\ pc = "done"
    /\ Len(calls) = 5
    /\ Len(calls[5].cmd.subcommands) >= 1

====
